---- MODULE Spec2Model ----
(***************************************************************************)
(* k8sutils hpa: the scale-strategy engine (getStrategy, reconcileMax,     *)
(* reconcileMin, modifyHPA, Hpa.Run) and the gauge renderer (formatMarks). *)
(*                                                                         *)
(* Go computes the percentage and multiplier strategies and the gauge      *)
(* columns in IEEE-754 binary64, from expressions parsed at binary32       *)
(* precision.  The first part of the module is that arithmetic, exactly:   *)
(* naturals of any size as bit sequences, and floats as sign, integer      *)
(* mantissa and binary exponent, rounded to nearest-even.                  *)
(***************************************************************************)
EXTENDS Integers, Sequences, FiniteSets, TLC

(***************************************************************************)
(* Naturals of any size: a sequence of limbs in base 2^15, least           *)
(* significant first, with no leading (last) zero limb; <<>> is 0.         *)
(***************************************************************************)
Base == 2 ^ 15

\* Op(v) with v evaluated once, whatever Op does with it.
Once(v, Op(_)) == CHOOSE y \in {Op(x) : x \in {v}} : TRUE

RECURSIVE Norm(_)
Norm(b) ==
  IF b = <<>> THEN b
  ELSE IF b[Len(b)] # 0 THEN b ELSE Norm(SubSeq(b, 1, Len(b) - 1))

RECURSIVE NatToBits(_)
NatToBits(n) ==
  IF n = 0 THEN <<>> ELSE <<n % Base>> \o NatToBits(n \div Base)

\* Defined for b < 2^31.
RECURSIVE BitsToNat(_)
BitsToNat(b) ==
  IF b = <<>> THEN 0 ELSE b[1] + Base * BitsToNat(Tail(b))

RECURSIVE AddC(_, _, _)
AddC(a, b, c) ==
  IF a = <<>> /\ b = <<>>
  THEN (IF c = 0 THEN <<>> ELSE <<c>>)
  ELSE LET x == IF a = <<>> THEN 0 ELSE a[1]
           y == IF b = <<>> THEN 0 ELSE b[1]
           t == x + y + c
       IN  <<t % Base>> \o AddC(IF a = <<>> THEN a ELSE Tail(a),
                                IF b = <<>> THEN b ELSE Tail(b), t \div Base)

Add(a, b) == AddC(a, b, 0)

Inc(a) == AddC(a, <<>>, 1)

RECURSIVE Zeros(_)
Zeros(k) == IF k <= 0 THEN <<>> ELSE <<0>> \o Zeros(k - 1)

\* a * c + carry, c < 2^15.
RECURSIVE MulSmallC(_, _, _)
MulSmallC(a, c, carry) ==
  IF a = <<>> THEN (IF carry = 0 THEN <<>> ELSE <<carry>>)
  ELSE LET t == a[1] * c + carry
       IN  <<t % Base>> \o MulSmallC(Tail(a), c, t \div Base)

MulSmall(a, c) == IF c = 0 THEN <<>> ELSE MulSmallC(a, c, 0)

RECURSIVE Mul(_, _)
Mul(a, b) ==
  IF a = <<>> \/ b = <<>> THEN <<>>
  ELSE Once(Mul(a, Tail(b)),
            LAMBDA rest : Add(MulSmall(a, b[1]),
                              IF rest = <<>> THEN rest ELSE <<0>> \o rest))

\* Long division of the limbs b[1..i] (above them the remainder rem) by a
\* divisor c <= 2^15: <<quotient limbs, remainder>>.
RECURSIVE DivFrom(_, _, _, _)
DivFrom(b, c, i, rem) ==
  IF i = 0 THEN <<<<>>, rem>>
  ELSE LET t == rem * Base + b[i]
       IN  Once(DivFrom(b, c, i - 1, t % c),
                LAMBDA rest : <<rest[1] \o <<t \div c>>, rest[2]>>)

DivSmall(b, c) ==
  Once(DivFrom(b, c, Len(b), 0), LAMBDA r : <<Norm(r[1]), r[2]>>)

\* The number of bits of a limb, and of a natural.
RECURSIVE LimbLen(_)
LimbLen(n) == IF n = 0 THEN 0 ELSE 1 + LimbLen(n \div 2)

BitLen(b) ==
  IF b = <<>> THEN 0 ELSE 15 * (Len(b) - 1) + LimbLen(b[Len(b)])

\* Bit i of b, counting from 1 at the least significant end.
Bit(b, i) ==
  LET l == (i - 1) \div 15 + 1 IN
  IF l > Len(b) THEN 0 ELSE (b[l] \div (2 ^ ((i - 1) % 15))) % 2

ShiftLeft(b, k) ==
  IF b = <<>> THEN b
  ELSE Zeros(k \div 15) \o MulSmall(b, 2 ^ (k % 15))

ShiftRight(b, k) ==
  IF k >= BitLen(b) THEN <<>>
  ELSE DivSmall(SubSeq(b, k \div 15 + 1, Len(b)),
                2 ^ (k % 15))[1]

\* Some of the k low bits of b is set.
LowBitsSet(b, k) == \E i \in 1..BitLen(b) : i <= k /\ Bit(b, i) = 1

(***************************************************************************)
(* Integer widths.  int32 is a TLC integer in [MinInt32, MaxInt32]; int    *)
(* (64 bits on the platforms the tool is released for) stays a bit         *)
(* sequence until it is converted.                                         *)
(***************************************************************************)
MaxInt32 == 2147483647

MinInt32 == -MaxInt32 - 1

Abs(n) == IF n < 0 THEN -n ELSE n

\* |n| of an int32 as bits (|MinInt32| is 2^31).
MagBits(n) ==
  IF n = MinInt32 THEN Inc(NatToBits(MaxInt32)) ELSE NatToBits(Abs(n))

Limb(b, i) == IF i <= Len(b) THEN b[i] ELSE 0

\* int32(num) of a non-negative int: the low 32 bits, two's complement.
Int32Wrap(b) ==
  LET low31 == Limb(b, 1) + Base * Limb(b, 2) + Base * Base * (Limb(b, 3) % 2)
  IN  IF Bit(b, 32) = 1 THEN low31 + MinInt32 ELSE low31

\* The bits fit int64: num <= 2^63 - 1.
FitsInt64(b) == BitLen(b) <= 63

(***************************************************************************)
(* Floats: [neg, m, e] is (-1)^neg * m * 2^e with m a natural.  Every      *)
(* value the program computes is finite: it divides by the constants 100   *)
(* and by a maximum that is positive where formatMarks is called.          *)
(***************************************************************************)
Float(neg, m, e) == [neg |-> neg, m |-> m, e |-> e]

FromInt(n) == Float(n < 0, MagBits(n), 0)

\* m * 2^e, plus a non-zero fraction of 2^e below it when sticky, rounded
\* to p bits, to nearest and ties to even.  With sticky, m has p + 2 bits.
RoundTo(neg, m, sticky, e, p) ==
  LET d == BitLen(m) - p IN
  IF d <= 0 THEN Float(neg, m, e)
  ELSE LET q    == ShiftRight(m, d)
           half == Bit(m, d) = 1
           low  == sticky \/ LowBitsSet(m, d - 1)
           up   == half /\ (low \/ Bit(q, 1) = 1)
       IN  Float(neg, IF up THEN Inc(q) ELSE q, e + d)

\* x / c in binary64, c an integer in 1 .. 2^15.
FDivInt(x, c) ==
  IF x.m = <<>> THEN x
  ELSE Once(DivSmall(ShiftLeft(x.m, 96), c),
            LAMBDA qr : RoundTo(x.neg, qr[1], qr[2] # 0, x.e - 96, 53))

\* x * y in binary64.
FMul(x, y) ==
  Once(Mul(x.m, y.m),
       LAMBDA m : RoundTo(x.neg # y.neg, m, FALSE, x.e + y.e, 53))

\* |x| cut to an integer, and whether a fraction was cut off.
IntPart(x) ==
  IF x.e >= 0 THEN [int |-> ShiftLeft(x.m, x.e), frac |-> FALSE]
  ELSE [int |-> ShiftRight(x.m, -x.e), frac |-> LowBitsSet(x.m, -x.e)]

\* math.Ceil(x) as sign and magnitude.
Ceil(x) ==
  LET ip == IntPart(x) IN
  IF x.neg THEN [neg |-> ip.int # <<>>, mag |-> ip.int]
  ELSE [neg |-> FALSE, mag |-> IF ip.frac THEN Inc(ip.int) ELSE ip.int]

\* x cut toward zero, as sign and magnitude.
Trunc(x) ==
  LET ip == IntPart(x) IN [neg |-> x.neg /\ ip.int # <<>>, mag |-> ip.int]

\* int32(f) of an integral float.  Go leaves the result of converting a
\* value outside int32 to the implementation: amd64 yields MinInt32, arm64
\* saturates.
ToInt32(v) ==
  IF BitLen(v.mag) <= 31
  THEN {IF v.neg THEN -BitsToNat(v.mag) ELSE BitsToNat(v.mag)}
  ELSE IF v.neg THEN {MinInt32} ELSE {MinInt32, MaxInt32}

(***************************************************************************)
(* Expressions are strings, modelled as sequences of one-character         *)
(* strings, so that the regular expressions and the numeric conversions    *)
(* are computed character by character as regexp and strconv do.          *)
(***************************************************************************)
Digits == {"0", "1", "2", "3", "4", "5", "6", "7", "8", "9"}

DigitVal(c) ==
  CASE c = "0" -> 0 [] c = "1" -> 1 [] c = "2" -> 2 [] c = "3" -> 3
    [] c = "4" -> 4 [] c = "5" -> 5 [] c = "6" -> 6 [] c = "7" -> 7
    [] c = "8" -> 8 [] c = "9" -> 9

\* The character class [0-9\\.] of a raw string literal: a digit, a
\* backslash or a dot.
NumClass == Digits \cup {"\\", "."}

AllIn(s, class) == \A i \in 1..Len(s) : s[i] \in class

Prefix(s) == SubSeq(s, 1, Len(s) - 1)

\* ^[0-9]+$
Number(s) == Len(s) >= 1 /\ AllIn(s, Digits)

\* ^[0-9\\.]+%$
Percentage(s) ==
  Len(s) >= 2 /\ s[Len(s)] = "%" /\ AllIn(Prefix(s), NumClass)

\* ^[0-9\\.]+x$
Multiply(s) ==
  Len(s) >= 2 /\ s[Len(s)] = "x" /\ AllIn(Prefix(s), NumClass)

\* The decimal digits of s, dots dropped, as a natural.
RECURSIVE DigitsValue(_, _)
DigitsValue(s, acc) ==
  IF s = <<>> THEN acc
  ELSE IF s[1] = "." THEN DigitsValue(Tail(s), acc)
  ELSE DigitsValue(Tail(s),
                   MulSmallC(acc, 10, DigitVal(s[1])))

\* strconv.Atoi of a string that matched Number: the value, or a range
\* error beyond int64.
Atoi(s) ==
  LET v == DigitsValue(s, <<>>) IN
  IF FitsInt64(v) THEN [err |-> FALSE, num |-> v]
  ELSE [err |-> TRUE, num |-> <<>>]

\* b / 10^k: <<quotient, whether a remainder was dropped>>.
RECURSIVE DivPow10(_, _, _)
DivPow10(b, k, sticky) ==
  IF k = 0 THEN <<b, sticky>>
  ELSE Once(DivSmall(b, 10),
            LAMBDA qr : DivPow10(qr[1], k - 1, sticky \/ qr[2] # 0))

DotCount(s) == Cardinality({i \in 1..Len(s) : s[i] = "."})

\* The number of digits after the dot.
FracDigits(s) ==
  IF DotCount(s) = 0 THEN 0
  ELSE Len(s) - (CHOOSE i \in 1..Len(s) : s[i] = ".")

\* strconv.ParseFloat(s, 32) of the numeric prefix of an expression: a
\* syntax error unless s is digits with at most one dot and at least one
\* digit; otherwise the binary32 nearest to the decimal value (a range
\* error when that is beyond binary32), returned as a float64.  
ParseFloat(s) ==
  IF ~AllIn(s, Digits \cup {"."}) \/ DotCount(s) > 1 \/ DotCount(s) = Len(s)
  THEN [err |-> TRUE, f |-> Float(FALSE, <<>>, 0)]
  ELSE Once(DivPow10(ShiftLeft(DigitsValue(s, <<>>), 96), FracDigits(s),
                     FALSE),
            LAMBDA qr :
              Once(RoundTo(FALSE, qr[1], qr[2], -96, 24),
                   LAMBDA f :
                     IF BitLen(f.m) + f.e > 128
                     THEN [err |-> TRUE, f |-> Float(FALSE, <<>>, 0)]
                     ELSE [err |-> FALSE, f |-> f]))

(***************************************************************************)
(* The strategy engine.  An HPA is [min, max, cpu] (Spec.MinReplicas,      *)
(* Spec.MaxReplicas, Spec.TargetCPUUtilizationPercentage) with its         *)
(* observed status [cur, desired, curCPU]; the two optional CPU fields     *)
(* are <<>> when nil and <<n>> otherwise.  A strategy, a closure in the    *)
(* source, is the case of getStrategy that built it with what it           *)
(* captured: [kind, num, f].                                               *)
(***************************************************************************)
NoFloat == Float(FALSE, <<>>, 0)

Strategy(kind, num, f) == [kind |-> kind, num |-> num, f |-> f]

NilStrategy == Strategy("nil", <<>>, NoFloat)

\* What getStrategy returns: (strategy, nil) or (nil, err).
Resolved(kind, num, f) == [strategy |-> Strategy(kind, num, f), err |-> ""]

Failed(err) == [strategy |-> NilStrategy, err |-> err]

FromAtoi(kind, s) ==
  LET r == Atoi(s) IN
  IF r.err THEN Failed("strconv.Atoi") ELSE Resolved(kind, r.num, NoFloat)

FromParseFloat(kind, s) ==
  LET r == ParseFloat(Prefix(s)) IN
  IF r.err THEN Failed("strconv.ParseFloat") ELSE Resolved(kind, <<>>, r.f)

\* A getStrategy that resolves a strategy whatever was requested.
getStrategyAlwaysResolves(prog) ==
  Resolved("MinimumNumber", NatToBits(1), NoFloat)

getStrategy(prog) ==
  CASE prog.CPUTarget > 0 ->
         Resolved("CPUTarget", NatToBits(prog.CPUTarget), NoFloat)
    [] prog.CPUTarget <= 0 /\ Number(prog.Minimum) ->
         FromAtoi("MinimumNumber", prog.Minimum)
    [] prog.CPUTarget <= 0 /\ ~Number(prog.Minimum)
         /\ Percentage(prog.Minimum) ->
         FromParseFloat("MinimumPercentage", prog.Minimum)
    [] prog.CPUTarget <= 0 /\ ~Number(prog.Minimum)
         /\ ~Percentage(prog.Minimum) /\ Multiply(prog.Minimum) ->
         FromParseFloat("MinimumMultiply", prog.Minimum)
    [] prog.CPUTarget <= 0 /\ ~Number(prog.Minimum)
         /\ ~Percentage(prog.Minimum) /\ ~Multiply(prog.Minimum)
         /\ Number(prog.Maximum) ->
         FromAtoi("MaximumNumber", prog.Maximum)
    [] prog.CPUTarget <= 0 /\ ~Number(prog.Minimum)
         /\ ~Percentage(prog.Minimum) /\ ~Multiply(prog.Minimum)
         /\ ~Number(prog.Maximum) /\ Percentage(prog.Maximum) ->
         FromParseFloat("MaximumPercentage", prog.Maximum)
    [] prog.CPUTarget <= 0 /\ ~Number(prog.Minimum)
         /\ ~Percentage(prog.Minimum) /\ ~Multiply(prog.Minimum)
         /\ ~Number(prog.Maximum) /\ ~Percentage(prog.Maximum)
         /\ Multiply(prog.Maximum) ->
         FromParseFloat("MaximumMultiply", prog.Maximum)
    [] OTHER -> Failed("invalid arguments")

\* A reconcileMax that clamps the field the caller just set.
reconcileMaxClampsMin(h) ==
  IF h.min > h.max THEN [h EXCEPT !.min = h.max] ELSE h

reconcileMax(h) == IF h.min > h.max THEN [h EXCEPT !.max = h.min] ELSE h

\* A reconcileMin that does nothing.
reconcileMinSkipped(h) == h

reconcileMin(h) == IF h.min > h.max THEN [h EXCEPT !.min = h.max] ELSE h

\* int32(math.Ceil(percent / 100 * float64(hpa.Spec.MaxReplicas))): the
\* values the conversion can yield.
Int32Ceil(x) == Once(Ceil(x), LAMBDA v : ToInt32(v))

Int32Trunc(x) == Once(Trunc(x), LAMBDA v : ToInt32(v))

PercentOfMax(percent, h) ==
  Once(FDivInt(percent, 100),
       LAMBDA q : Once(FMul(q, FromInt(h.max)), LAMBDA x : Int32Ceil(x)))

\* int32(float64(v) * multiplier)
Times(v, multiplier) ==
  Once(FMul(FromInt(v), multiplier), LAMBDA x : Int32Trunc(x))

\* The values a strategy can compute for the field it targets.
Computed(st, h) ==
  CASE st.kind = "CPUTarget"         -> {Int32Wrap(st.num)}
    [] st.kind = "MinimumNumber"     -> {Int32Wrap(st.num)}
    [] st.kind = "MinimumPercentage" -> PercentOfMax(st.f, h)
    [] st.kind = "MinimumMultiply"   -> Times(h.min, st.f)
    [] st.kind = "MaximumNumber"     -> {Int32Wrap(st.num)}
    [] st.kind = "MaximumPercentage" -> PercentOfMax(st.f, h)
    [] st.kind = "MaximumMultiply"   -> Times(h.max, st.f)

MinimumKinds == {"MinimumNumber", "MinimumPercentage", "MinimumMultiply"}

MaximumKinds == {"MaximumNumber", "MaximumPercentage", "MaximumMultiply"}

\* The HPA after the closure ran having computed v.
Updated(st, h, v) ==
  IF st.kind = "CPUTarget" THEN [h EXCEPT !.cpu = <<v>>]
  ELSE IF st.kind \in MinimumKinds
  THEN reconcileMax([h EXCEPT !.min = v])
  ELSE reconcileMin([h EXCEPT !.max = v])

\* update(hpa): the outcomes of calling the strategy on an HPA.  The
\* CPU-target closure writes through the target pointer, a nil pointer
\* dereference when the HPA has none.
update(st, h) ==
  IF st.kind = "CPUTarget" /\ h.cpu = <<>>
  THEN {[panic |-> TRUE, hpa |-> h, computed |-> 0]}
  ELSE {[panic |-> FALSE, hpa |-> Updated(st, h, v), computed |-> v] :
          v \in Computed(st, h)}

(***************************************************************************)
(* The gauge renderer.  A string is a sequence of one-character strings;   *)
(* a mark is [Mark, Postion] as in the source.  formatMarks is computed    *)
(* through a frame [marks, builder, cur, k, panic]: the sorted marks, the  *)
(* strings.Builder, the cursor, the index of the next mark of the loop,    *)
(* and whether the function panicked (a slice or index out of range).      *)
(***************************************************************************)
FieldLen == 40

RECURSIVE Repeat(_, _)
Repeat(c, n) == IF n <= 0 THEN <<>> ELSE <<c>> \o Repeat(c, n - 1)

\* var field = strings.Repeat(".", 40); var spaces = ... (" ", len(field))
field == Repeat(".", FieldLen)

spaces == Repeat(" ", Len(field))

\* s[0:n] of a Go string: a panic unless 0 <= n <= len(s).
SliceOK(s, n) == 0 <= n /\ n <= Len(s)

Mark(label, position) == [Mark |-> label, Postion |-> position]

\* math.MaxInt is 2^63 - 1; the model holds it as the largest integer TLC
\* has, above every other position.
MathMaxInt == MaxInt32

Max == Mark(<<"|">>, MathMaxInt)

DigitChar(d) ==
  CASE d = 0 -> "0" [] d = 1 -> "1" [] d = 2 -> "2" [] d = 3 -> "3"
    [] d = 4 -> "4" [] d = 5 -> "5" [] d = 6 -> "6" [] d = 7 -> "7"
    [] d = 8 -> "8" [] d = 9 -> "9"

\* fmt.Sprint of an integer.
RECURSIVE SprintNat(_)
SprintNat(n) ==
  IF n < 10 THEN <<DigitChar(n)>>
  ELSE SprintNat(n \div 10) \o <<DigitChar(n % 10)>>

Sprint(n) == IF n < 0 THEN <<"-">> \o SprintNat(-n) ELSE SprintNat(n)

\* sort.Slice by Postion: an insertion sort for slices this short, which
\* keeps marks of equal position in their order.
RECURSIVE Insert(_, _)
Insert(sorted, m) ==
  IF sorted = <<>> THEN <<m>>
  ELSE IF m.Postion < sorted[Len(sorted)].Postion
  THEN Append(Insert(SubSeq(sorted, 1, Len(sorted) - 1), m),
              sorted[Len(sorted)])
  ELSE Append(sorted, m)

RECURSIVE SortMarks(_)
SortMarks(ms) ==
  IF ms = <<>> THEN ms
  ELSE Insert(SortMarks(SubSeq(ms, 1, Len(ms) - 1)), ms[Len(ms)])

\* int(float64(v) / float64(max) * scale), for 0 <= v and 0 < max <= 2^15.
Column(v, max) ==
  Once(FDivInt(FromInt(v), max),
       LAMBDA q : Once(FMul(q, FromInt(Len(field))),
                       LAMBDA x : CHOOSE c \in Int32Trunc(x) : TRUE))

Frame(marks, builder, cur, k, panic) ==
  [marks |-> marks, builder |-> builder, cur |-> cur, k |-> k,
   panic |-> panic]

\* formatMarks up to the loop: sort, the border, the padding.
fmStart(min, max, marks) ==
  Once(Column(min, max),
       LAMBDA ls :
         IF SliceOK(spaces, ls)
         THEN Frame(SortMarks(marks), <<"|">> \o SubSeq(spaces, 1, ls),
                    ls, 1, FALSE)
         ELSE Frame(SortMarks(marks), <<"|">>, 0, 1, TRUE))

\* An iteration that renders every mark, wherever it is.
fmMarkRendersAll(f, max) ==
  LET mark  == f.marks[f.k]
      pos   == Column(mark.Postion, max)
      chars == pos - f.cur
  IN  IF chars > 0
      THEN IF SliceOK(field, chars - 1)
           THEN [f EXCEPT
                   !.builder = f.builder \o SubSeq(field, 1, chars - 1)
                                         \o mark.Mark,
                   !.cur = f.cur + chars + Len(mark.Mark),
                   !.k = f.k + 1]
           ELSE [f EXCEPT !.panic = TRUE]
      ELSE IF mark = f.marks[1]
      THEN [f EXCEPT !.builder = f.builder \o mark.Mark,
                     !.cur = f.cur + Len(mark.Mark),
                     !.k = f.k + 1]
      ELSE [f EXCEPT !.k = f.k + 1]

\* One iteration of the loop over the marks.
fmMark(f, max) ==
  LET mark  == f.marks[f.k]
      pos   == Column(mark.Postion, max)
      chars == pos - f.cur
  IN  IF mark.Postion > max THEN [f EXCEPT !.k = f.k + 1]
      ELSE IF chars > 0
      THEN IF SliceOK(field, chars - 1)
           THEN [f EXCEPT
                   !.builder = f.builder \o SubSeq(field, 1, chars - 1)
                                         \o mark.Mark,
                   !.cur = f.cur + chars + Len(mark.Mark),
                   !.k = f.k + 1]
           ELSE [f EXCEPT !.panic = TRUE]
      ELSE IF mark = f.marks[1]
      THEN [f EXCEPT !.builder = f.builder \o mark.Mark,
                     !.cur = f.cur + Len(mark.Mark),
                     !.k = f.k + 1]
      ELSE [f EXCEPT !.k = f.k + 1]

\* formatMarks after the loop: the filler up to the width, the closing
\* border and, with the sentinel last, the maximum.
fmEnd(f, max) ==
  LET chars == Len(field) - Len(f.builder) IN
  IF ~SliceOK(field, chars) \/ f.marks = <<>>
  THEN [f EXCEPT !.panic = TRUE]
  ELSE [f EXCEPT
          !.builder = f.builder \o SubSeq(field, 1, chars) \o <<"|", " ">>
                      \o (IF f.marks[Len(f.marks)] = Max
                          THEN Sprint(max) ELSE <<>>)]

RECURSIVE fmLoop(_, _)
fmLoop(f, max) ==
  IF f.panic \/ f.k > Len(f.marks) THEN f
  ELSE Once(fmMark(f, max), LAMBDA g : fmLoop(g, max))

\* formatMarks(min, max, marks...): the frame it ends in.
formatMarks(min, max, marks) ==
  Once(fmStart(min, max, marks),
       LAMBDA f0 : Once(fmLoop(f0, max),
                        LAMBDA f : IF f.panic THEN f ELSE fmEnd(f, max)))

(***************************************************************************)
(* State.                                                                  *)
(***************************************************************************)
VARIABLES
  program,     \* the Hpa command: Minimum, Maximum, CPUTarget, Info, Selection
  options,     \* Options: DryRun
  cluster,     \* the HPAs the API server stores, in list order
  hpas,        \* Run: the HPAs getHpas fetched
  pc,          \* where the running function is
  cal,         \* what getStrategy returned: [strategy, err]
  idx,         \* Run: the index of the next HPA of the range loop
  listErrors,  \* Run: the error of each modifyHPA call, "" for nil
  updates,     \* the Update calls issued to the API server: [hpa, to]
  record,      \* Run: per modifyHPA call, the "Updating HPA" record [hpa, from, to]
  result,      \* what Run returned: the joined errors, <<>> for nil
  hpa,         \* the HPA a strategy is applied to
  old,         \* that HPA before the last application
  computed,    \* the value the last application computed for its field
  calls,       \* the number of applications so far
  table,       \* Run: the rows printHPAs rendered, [cpu, pods]
  fmin,        \* formatMarks: the argument min
  fmax,        \* formatMarks: the argument max
  fmarks,      \* formatMarks: the argument marks, as passed
  fm           \* formatMarks: its frame

vars == <<program, options, cluster, hpas, pc, cal, idx, listErrors, updates,
          record, result, hpa, old, computed, calls, table, fmin, fmax,
          fmarks, fm>>

runVars == <<cluster, hpas, idx, listErrors, updates, record, result, table>>

strategyVars == <<hpa, old, computed, calls>>

marksVars == <<fmin, fmax, fmarks, fm>>

HPA(min, max, cpu, cur, desired, curCPU) ==
  [name |-> 0, min |-> min, max |-> max, cpu |-> cpu,
   cur |-> cur, desired |-> desired, curCPU |-> curCPU]

Program(minimum, maximum, cpuTarget, info, selection) ==
  [Minimum |-> minimum, Maximum |-> maximum, CPUTarget |-> cpuTarget,
   Info |-> info, Selection |-> selection]

NoFrame == Frame(<<>>, <<>>, 0, 0, FALSE)

\* The variables a specification does not use.
NoRun ==
  /\ cluster = <<>>
  /\ hpas = <<>>
  /\ idx = 0
  /\ listErrors = <<>>
  /\ updates = <<>>
  /\ record = <<>>
  /\ result = <<>>
  /\ table = <<>>

NoStrategy ==
  /\ hpa = HPA(0, 0, <<>>, 0, 0, <<>>)
  /\ old = hpa
  /\ computed = 0
  /\ calls = 0

NoMarks ==
  /\ fmin = 0
  /\ fmax = 0
  /\ fmarks = <<>>
  /\ fm = NoFrame

(***************************************************************************)
(* The expressions the specifications draw from: every lexical shape,      *)
(* zero payloads, fractions binary32 cannot hold, numbers beyond int32     *)
(* and beyond int64, and strings that match no shape or do not convert.    *)
(***************************************************************************)
Unset == <<>>

Numbers ==
  { <<"0">>, <<"3">>, <<"3", "0">>,
    <<"2", "1", "4", "7", "4", "8", "3", "6", "4", "8">>,
    <<"4", "2", "9", "4", "9", "6", "7", "2", "9", "7">>,
    <<"9", "9", "9", "9", "9", "9", "9", "9", "9", "9",
      "9", "9", "9", "9", "9", "9", "9", "9", "9", "9">> }

Percentages ==
  { <<"0", "%">>, <<"5", "0", "%">>, <<"2", "8", "%">>,
    <<"1", "5", "0", "%">>, <<"3", "3", ".", "3", "%">> }

Multipliers ==
  { <<"0", "x">>, <<"0", ".", "5", "x">>, <<"2", "x">>,
    <<"0", ".", "7", "x">>, <<"1", "0", "0", "0", "0", "0", "x">> }

Malformed ==
  { <<"a", "b", "c">>, <<"1", ".", "2", ".", "3", "%">>, <<".", "x">>,
    <<"1", "\\", "2", "%">> }

Expressions == Numbers \cup Percentages \cup Multipliers \cup Malformed

(***************************************************************************)
(* StrategySpec: getStrategy on a command, then the strategy it returned   *)
(* applied to one HPA, again and again.                                    *)
(***************************************************************************)
MaxCalls == 2

StrategyPrograms ==
  {Program(e, Unset, 0, FALSE, "all") : e \in Expressions}
  \cup {Program(Unset, e, 0, FALSE, "all") : e \in Expressions}
  \cup {Program(mn, mx, c, FALSE, "all") :
          mn \in {Unset, <<"a", "b", "c">>, <<"3">>},
          mx \in {Unset, <<"a", "b", "c">>, <<"2", "x">>},
          c \in {0, 50}}

StrategyHPAs ==
  {HPA(b[1], b[2], c, b[1], b[1], <<>>) :
     b \in {<<0, 0>>, <<1, 1>>, <<1, 3>>, <<3, 10>>, <<10, 10>>,
            <<3, 25>>, <<25, 25>>},
     c \in {<<>>, <<80>>}}

StrategyInit ==
  /\ program \in StrategyPrograms
  /\ hpa \in StrategyHPAs
  /\ options = [DryRun |-> TRUE]
  /\ pc = "getStrategy"
  /\ cal = Failed("")
  /\ old = hpa
  /\ computed = 0
  /\ calls = 0
  /\ NoRun
  /\ NoMarks

CallGetStrategy ==
  /\ pc = "getStrategy"
  /\ cal' = getStrategy(program)
  /\ pc' = IF cal'.err # "" THEN "failed" ELSE "update"
  /\ UNCHANGED <<program, options, hpa, old, computed, calls>>
  /\ UNCHANGED <<runVars, marksVars>>

CallUpdate ==
  /\ pc = "update"
  /\ calls < MaxCalls
  /\ \E o \in update(cal.strategy, hpa) :
       /\ hpa' = o.hpa
       /\ computed' = o.computed
       /\ pc' = IF o.panic THEN "panic" ELSE "update"
  /\ old' = hpa
  /\ calls' = calls + 1
  /\ UNCHANGED <<program, options, cal>>
  /\ UNCHANGED <<runVars, marksVars>>

StrategyNext == CallGetStrategy \/ CallUpdate

StrategySpec == StrategyInit /\ [][StrategyNext]_vars

(***************************************************************************)
(* Spec: Hpa.Run on a cluster.  The API server is the environment: a List  *)
(* can fail, the Get of a named HPA can fail (the name is skipped), and    *)
(* each Update can fail.                                                   *)
(***************************************************************************)
MaxBatch == 2

RunHPAs ==
  { HPA(2, 10, <<50>>, 4, 5, <<30>>),
    HPA(3, 25, <<>>, 3, 3, <<>>),
    HPA(5, 5, <<80>>, 5, 5, <<95>>) }

\* The sequences over S of length at most n.
RECURSIVE SeqsUpTo(_, _)
SeqsUpTo(S, n) ==
  IF n = 0 THEN {<<>>}
  ELSE LET shorter == SeqsUpTo(S, n - 1)
       IN  shorter \cup {Append(q, x) : q \in shorter, x \in S}

Named(q) == [j \in 1..Len(q) |-> [q[j] EXCEPT !.name = j]]

Clusters == {Named(q) : q \in SeqsUpTo(RunHPAs, MaxBatch)}

\* Info with a selection, a selection by --all or labels, a selection by
\* names, and no selection at all.
Modes == {<<TRUE, "all">>, <<FALSE, "all">>, <<FALSE, "names">>,
          <<FALSE, "none">>}

RunPrograms ==
  {Program(mn, mx, c, m[1], m[2]) :
     mn \in {Unset, <<"3">>, <<"5", "0", "%">>, <<"a", "b", "c">>,
             <<"1", ".", "2", ".", "3", "%">>},
     mx \in {Unset, <<"2", "x">>, <<"a", "b", "c">>},
     c \in {0, 50},
     m \in Modes}

Init ==
  /\ program \in RunPrograms
  /\ options \in {[DryRun |-> d] : d \in BOOLEAN}
  /\ cluster \in Clusters
  /\ hpas = <<>>
  /\ pc = "Run"
  /\ cal = Failed("")
  /\ idx = 0
  /\ listErrors = <<>>
  /\ updates = <<>>
  /\ record = <<>>
  /\ result = <<>>
  /\ table = <<>>
  /\ NoStrategy
  /\ NoMarks

\* The subsequences of q, in order.
RECURSIVE SubSeqs(_)
SubSeqs(q) ==
  IF q = <<>> THEN {<<>>}
  ELSE LET rest == SubSeqs(Tail(q))
       IN  rest \cup {<<Head(q)>> \o r : r \in rest}

\* getHpas: what it can return, (hpas, nil) or (nil, err).
getHpas(prog, stored) ==
  IF prog.Selection = "names"
  THEN {[hpas |-> q, err |-> ""] : q \in SubSeqs(stored)}
  ELSE {[hpas |-> stored, err |-> ""], [hpas |-> <<>>, err |-> "List"]}

\* Run up to the return of getHpas: with nothing selected the command
\* shows information.
Run_getHpas ==
  /\ pc = "Run"
  /\ LET info == program.Info \/ program.Selection = "none" IN
     /\ program' = [program EXCEPT !.Info = info]
     /\ \E r \in getHpas(program, cluster) :
          /\ hpas' = r.hpas
          /\ IF r.err # ""
             THEN pc' = "done" /\ result' = <<r.err>>
             ELSE /\ pc' = IF info THEN "printHPAs" ELSE "getStrategy"
                  /\ UNCHANGED result
  /\ UNCHANGED <<options, cluster, cal, idx, listErrors, updates, record,
                 table>>
  /\ UNCHANGED <<strategyVars, marksVars>>

\* The row of one HPA: the CPU gauge when both utilizations are known
\* (colours left out), and the replica gauge.
Row(h) ==
  LET known == h.curCPU # <<>> /\ h.cpu # <<>> IN
  Once(IF known
       THEN formatMarks(0, 100,
              <<Mark(Sprint(h.curCPU[1]) \o <<"%">>, h.curCPU[1]),
                Mark(<<"<">>, h.cpu[1])>>)
       ELSE NoFrame,
       LAMBDA cpu :
         Once(formatMarks(h.min, h.max,
                <<Mark(Sprint(h.cur), h.cur), Mark(<<"|">>, h.desired),
                  Max>>),
              LAMBDA pods :
                [panic |-> cpu.panic \/ pods.panic,
                 cpu |-> IF known THEN cpu.builder
                         ELSE <<"u", "n", "k", "n", "o", "w", "n">>,
                 pods |-> pods.builder]))

\* printHPAs: the table it renders, or a panic in formatMarks.
RECURSIVE Rows(_)
Rows(hs) ==
  IF hs = <<>> THEN <<>>
  ELSE Once(Row(hs[Len(hs)]),
            LAMBDA r : Append(Rows(SubSeq(hs, 1, Len(hs) - 1)), r))

printHPAs(hs) ==
  Once(Rows(hs),
       LAMBDA rows :
         IF \E j \in 1..Len(rows) : rows[j].panic
         THEN [panic |-> TRUE, rows |-> <<>>]
         ELSE [panic |-> FALSE,
               rows |-> [j \in 1..Len(rows) |->
                           [cpu |-> rows[j].cpu, pods |-> rows[j].pods]]])

Run_printHPAs ==
  /\ pc = "printHPAs"
  /\ \E r \in {printHPAs(hpas)} :
       /\ table' = r.rows
       /\ pc' = IF r.panic THEN "panic" ELSE "done"
  /\ UNCHANGED <<program, options, cluster, hpas, cal, idx, listErrors,
                 updates, record, result>>
  /\ UNCHANGED <<strategyVars, marksVars>>

Run_getStrategy ==
  /\ pc = "getStrategy"
  /\ cal' = getStrategy(program)
  /\ IF cal'.err # ""
     THEN pc' = "done" /\ result' = <<cal'.err>> /\ UNCHANGED idx
     ELSE pc' = "range" /\ idx' = 1 /\ UNCHANGED result
  /\ UNCHANGED <<program, options, cluster, hpas, listErrors, updates,
                 record, table>>
  /\ UNCHANGED <<strategyVars, marksVars>>

\* modifyHPA: the outcomes of one call.  The strategy can panic; otherwise
\* the change is logged and, unless DryRun, sent to the API server, whose
\* Update succeeds or fails.
modifyHPA(h, st, opts) ==
  LET outs == update(st, h) IN
  {[panic |-> TRUE, hpa |-> o.hpa, sent |-> FALSE, err |-> ""] :
     o \in {x \in outs : x.panic}}
  \cup
  {[panic |-> FALSE, hpa |-> o.hpa, sent |-> ~opts.DryRun, err |-> e] :
     o \in {x \in outs : ~x.panic},
     e \in IF opts.DryRun THEN {""} ELSE {"", "Update"}}

\* The API server after an Update that succeeded.
Stored(stored, h) == [stored EXCEPT ![h.name] = h]

\* One iteration of the range loop of Run.
Run_modifyHPA ==
  /\ pc = "range"
  /\ idx <= Len(hpas)
  /\ \E r \in modifyHPA(hpas[idx], cal.strategy, options) :
       IF r.panic
       THEN /\ pc' = "panic"
            /\ UNCHANGED <<idx, listErrors, updates, record, cluster>>
       ELSE /\ pc' = "range"
            /\ idx' = idx + 1
            /\ listErrors' = Append(listErrors, r.err)
            /\ record' = Append(record,
                 [hpa |-> hpas[idx].name,
                  from |-> <<hpas[idx].min, hpas[idx].max>>,
                  to |-> r.hpa])
            /\ updates' = IF r.sent THEN Append(updates, r.hpa) ELSE updates
            /\ cluster' = IF r.sent /\ r.err = ""
                          THEN Stored(cluster, r.hpa) ELSE cluster
  /\ UNCHANGED <<program, options, hpas, cal, result, table>>
  /\ UNCHANGED <<strategyVars, marksVars>>

\* errors.Join: the non-nil errors, nil when there is none.
Join(errs) == SelectSeq(errs, LAMBDA e : e # "")

Run_return ==
  /\ pc = "range"
  /\ idx > Len(hpas)
  /\ result' = Join(listErrors)
  /\ pc' = "done"
  /\ UNCHANGED <<program, options, cluster, hpas, cal, idx, listErrors,
                 updates, record, table>>
  /\ UNCHANGED <<strategyVars, marksVars>>

Next ==
  \/ Run_getHpas
  \/ Run_printHPAs
  \/ Run_getStrategy
  \/ Run_modifyHPA
  \/ Run_return

Spec == Init /\ [][Next]_vars

(***************************************************************************)
(* MarksSpec: formatMarks on a scale, a leading value and marks, one       *)
(* iteration of its loop at a time.                                        *)
(***************************************************************************)
MaxMarks == 3

MarkSet ==
  { Mark(<<"X">>, 0), Mark(<<"4">>, 4), Mark(<<"|">>, 5),
    Mark(<<"1", "0">>, 10), Mark(<<"1", "2">>, 12), Mark(<<"Y">>, 200),
    Max }

Scales ==
  {<<0, 10>>, <<2, 10>>, <<10, 10>>, <<0, 100>>, <<2, 100>>, <<50, 100>>}

MarksInit ==
  /\ \E sc \in Scales : fmin = sc[1] /\ fmax = sc[2]
  /\ fmarks \in SeqsUpTo(MarkSet, MaxMarks) \ {<<>>}
  /\ fm = NoFrame
  /\ pc = "formatMarks"
  /\ program = Program(Unset, Unset, 0, TRUE, "all")
  /\ options = [DryRun |-> TRUE]
  /\ cal = Failed("")
  /\ NoRun
  /\ NoStrategy

FormatMarks_start ==
  /\ pc = "formatMarks"
  /\ fm' = fmStart(fmin, fmax, fmarks)
  /\ pc' = IF fm'.panic THEN "panic" ELSE "marks"
  /\ UNCHANGED <<program, options, cal, fmin, fmax, fmarks>>
  /\ UNCHANGED <<runVars, strategyVars>>

FormatMarks_mark ==
  /\ pc = "marks"
  /\ fm.k <= Len(fm.marks)
  /\ fm' = fmMark(fm, fmax)
  /\ pc' = IF fm'.panic THEN "panic" ELSE "marks"
  /\ UNCHANGED <<program, options, cal, fmin, fmax, fmarks>>
  /\ UNCHANGED <<runVars, strategyVars>>

FormatMarks_end ==
  /\ pc = "marks"
  /\ fm.k > Len(fm.marks)
  /\ fm' = fmEnd(fm, fmax)
  /\ pc' = IF fm'.panic THEN "panic" ELSE "formatted"
  /\ UNCHANGED <<program, options, cal, fmin, fmax, fmarks>>
  /\ UNCHANGED <<runVars, strategyVars>>

MarksNext == FormatMarks_start \/ FormatMarks_mark \/ FormatMarks_end

MarksSpec == MarksInit /\ [][MarksNext]_vars

(***************************************************************************)
(* The claims about the strategies, checked under StrategySpec.  What a    *)
(* claim promises is computed here in exact integer arithmetic from the    *)
(* decimal digits of the expression, not by the program's floats.          *)
(***************************************************************************)
Larger(a, b) == IF a > b THEN a ELSE b

Smaller(a, b) == IF a < b THEN a ELSE b

Applied == calls >= 1 /\ pc = "update"

Kind == cal.strategy.kind

\* The int32 a sign and magnitude denote, if any.
AsInt32(v) ==
  IF BitLen(v.mag) <= 31
  THEN {IF v.neg THEN -BitsToNat(v.mag) ELSE BitsToNat(v.mag)}
  ELSE IF v.neg /\ v.mag = MagBits(MinInt32) THEN {MinInt32} ELSE {}

\* ceil(p / 100 * M) for the expression "p%".
ExactCeilPercent(s, M) ==
  LET p  == Prefix(s)
      qr == DivPow10(Mul(DigitsValue(p, <<>>), MagBits(M)),
                     FracDigits(p) + 2, FALSE)
  IN  IF M < 0 THEN [neg |-> qr[1] # <<>>, mag |-> qr[1]]
      ELSE [neg |-> FALSE, mag |-> IF qr[2] THEN Inc(qr[1]) ELSE qr[1]]

\* round(v * f) for the expression "fx", halves away from zero.
ExactRoundTimes(s, v) ==
  LET p   == Prefix(s)
      q2  == DivPow10(MulSmall(Mul(DigitsValue(p, <<>>), MagBits(v)), 2),
                      FracDigits(p), FALSE)[1]
      mag == DivSmall(Inc(q2), 2)[1]
  IN  [neg |-> v < 0 /\ mag # <<>>, mag |-> mag]

\* The n of the expression "n".
ExactNumber(s) == [neg |-> FALSE, mag |-> DigitsValue(s, <<>>)]

\* C1: for every HPA whose bounds start with 0 <= minimum <= maximum and
\* every strategy getStrategy resolves, minimum <= maximum holds after the
\* strategy is applied, and after every further application of it.
C1_MinimumAtMostMaximum == hpa.min <= hpa.max

\* A second application of a minimum strategy whose value exceeded the
\* maximum, which reconciliation raised.
C1_Witness ==
  /\ Applied
  /\ calls = 2
  /\ Kind \in MinimumKinds
  /\ computed > old.max
  /\ hpa.max = computed

\* C2: a percentage "p%" given as the minimum sets minimum to
\* ceil(p/100 * M), M the maximum before the update, whatever the minimum
\* was.
C2_PercentageMinimumIsCeil ==
  (Applied /\ Kind = "MinimumPercentage") =>
    hpa.min \in AsInt32(ExactCeilPercent(program.Minimum, old.max))

\* C3: a multiplier "fx" sets the targeted field to round(v * f), v that
\* field's value before the update.
C3_MultiplierRounds ==
  /\ (Applied /\ Kind = "MinimumMultiply") =>
       hpa.min \in AsInt32(ExactRoundTimes(program.Minimum, old.min))
  /\ (Applied /\ Kind = "MaximumMultiply") =>
       hpa.max \in AsInt32(ExactRoundTimes(program.Maximum, old.max))

\* C4: a digits-only "n" given as the minimum leaves minimum = n, and
\* maximum = n when n exceeded it, maximum unchanged otherwise.
C4_NumberMinimumIsN ==
  (Applied /\ Kind = "MinimumNumber") =>
    LET n == AsInt32(ExactNumber(program.Minimum)) IN
    /\ hpa.min \in n
    /\ IF \A v \in n : v > old.max
       THEN hpa.max \in n
       ELSE hpa.max = old.max

\* C5: reconciliation never overwrites the targeted field.  After a
\* minimum strategy minimum is the computed value and maximum the larger
\* of the old maximum and it; after a maximum strategy maximum is the
\* computed value and minimum the smaller of the old minimum and it; the
\* other field is unchanged when the new value keeps minimum <= maximum.
C5_ReconcileKeepsTarget ==
  Applied =>
    /\ computed \in Computed(cal.strategy, old)
    /\ Kind \in MinimumKinds =>
         /\ hpa.min = computed
         /\ hpa.max = Larger(old.max, computed)
         /\ computed <= old.max => hpa.max = old.max
    /\ Kind \in MaximumKinds =>
         /\ hpa.max = computed
         /\ hpa.min = Smaller(old.min, computed)
         /\ computed >= old.min => hpa.min = old.min

\* A maximum strategy whose value fell below the minimum, which
\* reconciliation lowered to it.
C5_Witness ==
  /\ Applied
  /\ Kind \in MaximumKinds
  /\ computed < old.min
  /\ hpa.min = computed
  /\ hpa.max = computed

(***************************************************************************)
(* The claims about Hpa.Run, checked under Spec.                           *)
(***************************************************************************)
\* getStrategy has returned in this run.
Resolution == cal # Failed("")

\* The range loop was entered, and the run is over: Run returned or the
\* process died of a panic.
Ranged == idx >= 1

Ended == pc \in {"done", "panic"}

\* A requested expression that matches none of the three shapes, or whose
\* numeric part does not convert.
IsMalformed(s) ==
  /\ s # Unset
  /\ IF Number(s) THEN Atoi(s).err
     ELSE IF Percentage(s) \/ Multiply(s) THEN ParseFloat(Prefix(s)).err
     ELSE TRUE

NoneSet ==
  program.CPUTarget <= 0 /\ program.Minimum = Unset /\ program.Maximum = Unset

Failures(errs) == {j \in 1..Len(errs) : errs[j] # ""}

\* C6: whenever a requested minimum or maximum expression is malformed,
\* strategy resolution returns an error and no record is modified or
\* persisted in that run, whatever the CPU target and the other bound are.
C6_MalformedExpressionRejected ==
  (Resolution /\ (IsMalformed(program.Minimum) \/ IsMalformed(program.Maximum)))
    => /\ cal.err # ""
       /\ cal.strategy = NilStrategy
       /\ record = <<>>
       /\ updates = <<>>

\* C7: when none of CPU target, minimum and maximum is set, getStrategy
\* fails with "invalid arguments" and returns no strategy, and Run returns
\* that error having updated no record and sent no Update.
C7_NothingRequestedIsInvalid ==
  NoneSet =>
    /\ getStrategy(program) = Failed("invalid arguments")
    /\ Resolution =>
         /\ cal = Failed("invalid arguments")
         /\ pc = "done"
         /\ result = <<"invalid arguments">>
         /\ record = <<>>
         /\ updates = <<>>

\* A run on selected HPAs with nothing requested, which returned the error.
C7_Witness ==
  /\ NoneSet
  /\ Resolution
  /\ pc = "done"
  /\ Len(hpas) >= 1
  /\ result = <<"invalid arguments">>
  /\ updates = <<>>

\* C8: every HPA of the batch is attempted exactly once, in order,
\* whatever Updates fail; the result holds one failure per failed HPA and
\* is nil exactly when none failed.
C8_AttemptAllReportAll ==
  (Ranged /\ Ended) =>
    /\ Len(record) = Len(hpas)
    /\ \A j \in 1..Len(record) : record[j].hpa = hpas[j].name
    /\ Len(listErrors) = Len(hpas)
    /\ ~options.DryRun => Len(updates) = Len(hpas)
    /\ Len(result) = Cardinality(Failures(listErrors))
    /\ (result = <<>>) <=> (Failures(listErrors) = {})

\* C9: with DryRun no Update is ever sent, while the strategy is applied
\* in memory to every HPA of the batch and Run reports no failure.
C9_DryRunSendsNothing ==
  options.DryRun =>
    /\ updates = <<>>
    /\ (Ranged /\ Ended) =>
         /\ pc = "done"
         /\ Len(record) = Len(hpas)
         /\ \A j \in 1..Len(record) :
              record[j].to \in {o.hpa : o \in update(cal.strategy, hpas[j])}
         /\ result = <<>>

(***************************************************************************)
(* The claims about formatMarks, checked under MarksSpec.                  *)
(***************************************************************************)
\* The marks whose position is within the scale, in their order.
InRange(marks, max) == SelectSeq(marks, LAMBDA m : m.Postion <= max)

\* formatMarks on these marks, up to the end of its loop.
Looped(marks) == fmLoop(fmStart(fmin, fmax, marks), fmax)

\* Whether formatMarks panics in, or after, the loop that ended in f.
Panics(f) == f.panic \/ ~SliceOK(field, Len(field) - Len(f.builder))

\* The gauge of f with its filler and closing border.
Closed(f) ==
  f.builder \o SubSeq(field, 1, Len(field) - Len(f.builder)) \o <<"|", " ">>

HasMax(marks) == \E j \in 1..Len(marks) : marks[j] = Max

\* C10 as stated: a mark whose position is greater than max contributes
\* no character to the output, which is the output of the marks within
\* the scale alone.
C10_OutOfRangeMarkAbsent ==
  pc = "formatted" => fm.builder = Closed(Looped(InRange(fmarks, fmax)))

\* C10, amended: a mark whose position is greater than max writes no label
\* and leaves the builder, the cursor and the filler as the marks within
\* the scale alone make them, through the closing border; when the
\* sentinel Max is among the marks the numeric max follows the border.
C10_OutOfRangeMarksLeaveGauge ==
  /\ pc = "marks" =>
       LET ref == Looped(InRange(SubSeq(fm.marks, 1, fm.k - 1), fmax)) IN
       /\ ~ref.panic
       /\ fm.builder = ref.builder
       /\ fm.cur = ref.cur
  /\ pc = "formatted" =>
       LET ref == Looped(InRange(fmarks, fmax)) IN
       /\ ~Panics(ref)
       /\ fm.builder = Closed(ref) \o (IF HasMax(fmarks) THEN Sprint(fmax)
                                       ELSE <<>>)
  /\ pc = "panic" => Panics(Looped(InRange(fmarks, fmax)))

\* A gauge of three marks: one beyond the scale passed first, one within
\* it, whose label is the only one written, and the sentinel.
C10_Witness ==
  /\ pc = "formatted"
  /\ Len(fmarks) = 3
  /\ fmarks[1].Postion > fmax
  /\ fmarks[1] # Max
  /\ Len(InRange(fmarks, fmax)) = 1
  /\ HasMax(fmarks)
  /\ fm.builder # Closed(Looped(<<>>)) \o Sprint(fmax)

\* Every mark is the sentinel or has its position on the scale.
MarksInScale ==
  \A j \in 1..Len(fmarks) :
    fmarks[j] = Max \/ (0 <= fmarks[j].Postion /\ fmarks[j].Postion <= fmax)

\* C11: for max > 0, 0 <= leading <= max and marks on the scale (with or
\* without the sentinel), formatMarks takes no slice of a negative or
\* out-of-range length, and the string it returns, the numeric max of the
\* sentinel not counted, is as long as the field plus 2.
C11_SlicesInRangeWidthFixed ==
  (fmax > 0 /\ 0 <= fmin /\ fmin <= fmax /\ MarksInScale) =>
    /\ pc # "panic"
    /\ pc = "formatted" =>
         Len(fm.builder) - (IF HasMax(fmarks) THEN Len(Sprint(fmax)) ELSE 0)
           = FieldLen + 2

(***************************************************************************)
(* The claims about the CPU target and the precedence of the fields,       *)
(* checked under StrategySpec.                                             *)
(***************************************************************************)
\* C12: with a CPU target n > 0 requested, the strategy applied to an HPA,
\* whether it has a CPU target or none, completes without failure, leaves
\* the CPU target at n and leaves minimum and maximum as they were.
C12_CPUTargetSetsOnlyTarget ==
  program.CPUTarget > 0 =>
    /\ pc # "getStrategy" => (cal.err = "" /\ Kind = "CPUTarget")
    /\ calls >= 1 =>
         /\ pc # "panic"
         /\ hpa.cpu = <<program.CPUTarget>>
         /\ hpa.min = old.min
         /\ hpa.max = old.max

\* The command with only its field of highest precedence left.
Precedent(prog) ==
  IF prog.CPUTarget > 0
  THEN [prog EXCEPT !.Minimum = Unset, !.Maximum = Unset]
  ELSE IF prog.Minimum # Unset THEN [prog EXCEPT !.Maximum = Unset]
  ELSE prog

\* C13: resolution applies exactly one field, the CPU target if set, else
\* the minimum expression if set, else the maximum expression; what is
\* supplied for a field of lower precedence has no effect, and the other
\* bound changes only through reconciliation.
C13_OneFieldByPrecedence ==
  pc # "getStrategy" =>
    /\ cal = getStrategy(Precedent(program))
    /\ calls >= 1 =>
         /\ pc # "panic"
         /\ program.CPUTarget > 0 =>
              hpa = [old EXCEPT !.cpu = <<program.CPUTarget>>]
         /\ (program.CPUTarget <= 0 /\ program.Minimum # Unset) =>
              /\ hpa.cpu = old.cpu
              /\ hpa.min = computed
              /\ hpa.max \in {old.max, hpa.min}
         /\ (program.CPUTarget <= 0 /\ program.Minimum = Unset) =>
              /\ hpa.cpu = old.cpu
              /\ hpa.max = computed
              /\ hpa.min \in {old.min, hpa.max}

(***************************************************************************)
(* The claim about the cursor of formatMarks, checked under MarksSpec.     *)
(***************************************************************************)
\* C14: after each mark is processed the cursor is the number of
\* characters written after the opening border, so a mark with a label of
\* one character that is placed after a positive gap, first or later, has
\* its label in cell floor(position / max * W), cells counted from 1 after
\* the opening border.
C14_CursorIsColumn ==
  [][(pc = "marks" /\ pc' = "marks") =>
       LET mark == fm.marks[fm.k]
           pos  == Column(mark.Postion, fmax)
       IN  /\ fm'.cur = Len(fm'.builder) - 1
           /\ (mark.Postion <= fmax /\ pos - fm.cur > 0 /\ Len(mark.Mark) = 1)
                => /\ Len(fm'.builder) - 1 = pos
                   /\ fm'.builder[pos + 1] = mark.Mark[1]]_vars

====
